---- MODULE Spec2Model ----
(***************************************************************************)
(* Food Vision API (nex-ai): the scoring pipeline (app/vision.py,          *)
(* app/claude_vision.py, app/scorer.py) and the HTTP handlers that drive   *)
(* it (app/routers/*.py).                                                  *)
(*                                                                         *)
(* Number representation.  Feature vectors are unit vectors with integer   *)
(* coordinates in fifths (<<3,4>> is (0.6, 0.8)), so a dot product is an   *)
(* integer number of 25ths.  A similarity is an integer 0..25 (25ths), a   *)
(* score is an integer number of tenths of a point (1000 is 100.0), and a  *)
(* weight is an integer number of hundredths (65 is 0.65).                 *)
(***************************************************************************)
EXTENDS Integers, Sequences, FiniteSets, TLC

VARIABLES
  settings,   \* app.config.settings: API key present, the three weights
  file,       \* models/<dish_id>.pkl of the one dish the calls address
  refdir,     \* the image paths present under storage/references/<dish_id>
  ref_dir_exists, \* the directory storage/references/<dish_id> exists
  resp,       \* outcome of the last analysis call (sequential specification)
  uploads,    \* the images of the batch request
  bi,         \* analyze_batch: number of images already processed
  results,    \* analyze_batch: the results list
  bresp,      \* analyze_batch: the response, once returned
  procs       \* concurrent handler invocations, each with its local state

vars == <<settings, file, refdir, ref_dir_exists, resp, uploads, bi, results, bresp, procs>>

(***************************************************************************)
(* Bounds of the model.                                                    *)
(***************************************************************************)
MaxRefs == 2
MaxBatch == 2
MaxImages == 2

(***************************************************************************)
(* Arithmetic helpers.                                                     *)
(***************************************************************************)
Min2(a, b) == IF a < b THEN a ELSE b
Max2(a, b) == IF a > b THEN a ELSE b

\* Python's round(): n/d rounded to the nearest integer, halves to even.
\* n >= 0, d > 0.
PyRound(n, d) ==
  LET q == n \div d
      r == n % d
  IN  IF 2 * r < d THEN q
      ELSE IF 2 * r > d THEN q + 1
      ELSE IF q % 2 = 0 THEN q ELSE q + 1

RECURSIVE SumSeq(_)
SumSeq(s) == IF s = <<>> THEN 0 ELSE Head(s) + SumSeq(Tail(s))

(***************************************************************************)
(* Feature vectors (vision.py).                                            *)
(***************************************************************************)
\* What extract_features returns for an image: the image is identified
\* with its two descriptors, unit vectors with coordinates in fifths.
Features ==
  { [embedding |-> <<5, 0>>,  color_histogram |-> <<5, 0>>],
    [embedding |-> <<3, 4>>,  color_histogram |-> <<5, 0>>],
    [embedding |-> <<0, 5>>,  color_histogram |-> <<0, 5>>],
    [embedding |-> <<-5, 0>>, color_histogram |-> <<3, 4>>] }

Dot(a, b) == a[1] * b[1] + a[2] * b[2]

\* cosine_similarity: np.clip(np.dot(a, b), 0.0, 1.0), in 25ths.
cosine_similarity(a, b) == Min2(Max2(Dot(a, b), 0), 25)

embedding_weight == 65
color_weight == 35

\* The empty dict best_breakdown starts as.
EmptyBreakdown ==
  [present |-> FALSE, visual_structure_score |-> 0, color_score |-> 0,
   combined_visual_score |-> 0]

\* The replacement test of the scan: combined > best_score.
CompareBetterGE(combined, best_score) == combined >= best_score
CompareBetter(combined, best_score) == combined > best_score

\* One iteration of the loop of compare_to_reference on reference i.
\* combined is in units of 1/2500.  acc.best_idx records which list entry
\* best_breakdown was taken from (0: none); the code does not return it.
CompareStep(acc, q, refs, i) ==
  LET emb_sim == cosine_similarity(q.embedding, refs[i].embedding)
      color_sim == cosine_similarity(q.color_histogram, refs[i].color_histogram)
      combined == emb_sim * embedding_weight + color_sim * color_weight
  IN  IF CompareBetter(combined, acc.best_score)
      THEN [best_score |-> combined,
            best_idx |-> i,
            best_breakdown |->
              [present |-> TRUE,
               visual_structure_score |-> emb_sim * 40,
               color_score |-> color_sim * 40,
               combined_visual_score |-> PyRound(combined * 2, 5)]]
      ELSE acc

RECURSIVE CompareScan(_, _, _, _)
CompareScan(acc, q, refs, i) ==
  IF i > Len(refs) THEN acc
  ELSE CompareScan(CompareStep(acc, q, refs, i), q, refs, i + 1)

compare_to_reference(query_features, reference_features_list) ==
  CompareScan([best_score |-> 0, best_idx |-> 0, best_breakdown |-> EmptyBreakdown],
              query_features, reference_features_list, 1)

(***************************************************************************)
(* Settings (config.py).  The key and the three weights come from the      *)
(* environment; nothing validates them.  The first weight triple is the    *)
(* default, the second another normalised one, the third sums to 1.5.      *)
(***************************************************************************)
WeightConfigs ==
  { [VISUAL_SIMILARITY_WEIGHT |-> 50, COLOR_SIMILARITY_WEIGHT |-> 25,
     CLAUDE_SCORE_WEIGHT |-> 25],
    [VISUAL_SIMILARITY_WEIGHT |-> 60, COLOR_SIMILARITY_WEIGHT |-> 30,
     CLAUDE_SCORE_WEIGHT |-> 10],
    [VISUAL_SIMILARITY_WEIGHT |-> 50, COLOR_SIMILARITY_WEIGHT |-> 50,
     CLAUDE_SCORE_WEIGHT |-> 50] }

SettingsSet ==
  { [ANTHROPIC_API_KEY |-> k, weights |-> w] : k \in BOOLEAN, w \in WeightConfigs }

(***************************************************************************)
(* External Judgment Adapter (claude_vision.py).                           *)
(***************************************************************************)
NoScore == [present |-> FALSE, val |-> 0]
SomeScore(n) == [present |-> TRUE, val |-> n]

\* The "claude_score" member of the JSON object the service answers with.
ScoreFields ==
  { [kind |-> "absent", num |-> 0],      \* no such key
    [kind |-> "null", num |-> 0],        \* "claude_score": null
    [kind |-> "text", num |-> 0] }       \* "claude_score": "n/a"
  \cup { [kind |-> "number", num |-> n] : n \in {0, 40, 100, 150} }

\* What json.loads makes of the body: not JSON at all, a JSON array, or a
\* JSON object with its claude_score member.
Payloads ==
  { [valid |-> FALSE, shape |-> "none", score |-> [kind |-> "absent", num |-> 0]],
    [valid |-> TRUE, shape |-> "array", score |-> [kind |-> "absent", num |-> 0]] }
  \cup { [valid |-> TRUE, shape |-> "object", score |-> s] : s \in ScoreFields }

GoodPayload == [valid |-> TRUE, shape |-> "object", score |-> [kind |-> "number", num |-> 40]]

\* The service's answer: a transport/service error, or a message text made
\* of what precedes the body, the body, and what follows it.  "fence_json"
\* is a code fence opened with the json tag, "fence" a bare code fence,
\* "prose" any other text, "" nothing.
ServiceResponses ==
  { [kind |-> "error", prefix |-> "", payload |-> GoodPayload, suffix |-> ""] }
  \cup { [kind |-> "text", prefix |-> "", payload |-> p, suffix |-> ""] : p \in Payloads }
  \cup { [kind |-> "text", prefix |-> "fence_json", payload |-> GoodPayload, suffix |-> "fence"],
         [kind |-> "text", prefix |-> "fence", payload |-> GoodPayload, suffix |-> "fence"],
         [kind |-> "text", prefix |-> "prose", payload |-> GoodPayload,
          suffix |-> ""] }

GoodResponse == [kind |-> "text", prefix |-> "", payload |-> GoodPayload, suffix |-> ""]

\* What the adapter meets: the openai import and client construction, the
\* JPEG encoding of the reference and of the query image, the service.
AdapterEnvs ==
  { [lib_ok |-> TRUE, encode_ref_ok |-> TRUE, encode_query_ok |-> TRUE, service |-> r] :
      r \in ServiceResponses }
  \cup { [lib_ok |-> FALSE, encode_ref_ok |-> TRUE, encode_query_ok |-> TRUE,
          service |-> GoodResponse],
         [lib_ok |-> TRUE, encode_ref_ok |-> FALSE, encode_query_ok |-> TRUE,
          service |-> GoodResponse],
         [lib_ok |-> TRUE, encode_ref_ok |-> TRUE, encode_query_ok |-> FALSE,
          service |-> GoodResponse] }

\* The three re.sub calls: a leading ```json or ``` and a trailing ``` go.
StripFences(raw) ==
  [raw EXCEPT !.prefix = IF @ \in {"fence_json", "fence"} THEN "" ELSE @,
              !.suffix = IF @ = "fence" THEN "" ELSE @]

\* json.loads succeeds on a valid body with nothing around it.
JsonLoadsOk(raw) == raw.prefix = "" /\ raw.suffix = "" /\ raw.payload.valid

\* int(result.get("claude_score", 0)): a missing key reads as 0; null and
\* non-numeric text make int() raise; an array has no .get.
IntOfScoreRaises(payload) ==
  \/ payload.shape # "object"
  \/ payload.score.kind \in {"null", "text"}

IntOfScore(payload) ==
  IF payload.score.kind = "absent" THEN 0 ELSE payload.score.num

_fallback_response ==
  [out |-> "return", claude_score |-> NoScore, analysis_source |-> "unavailable",
   confidence |-> "none"]

AdapterRaise ==
  [out |-> "raise", claude_score |-> NoScore, analysis_source |-> "unavailable",
   confidence |-> "none"]

\* The body of the try block: the request, the parse, the result dict.
AdapterTry(env) ==
  IF env.service.kind = "error" THEN _fallback_response
  ELSE LET raw == StripFences(env.service)
       IN  IF ~JsonLoadsOk(raw) THEN _fallback_response
           ELSE IF IntOfScoreRaises(raw.payload) THEN _fallback_response
           ELSE [out |-> "return",
                 claude_score |-> SomeScore(IntOfScore(raw.payload)),
                 analysis_source |-> "gpt4o_vision",
                 confidence |-> "medium"]

analyze_with_claude(has_reference_image, env) ==
  IF ~settings.ANTHROPIC_API_KEY THEN _fallback_response
  ELSE IF ~env.lib_ok THEN AdapterRaise
  ELSE IF has_reference_image /\ ~env.encode_ref_ok THEN AdapterRaise
  ELSE IF ~env.encode_query_ok THEN AdapterRaise
  ELSE AdapterTry(env)

(***************************************************************************)
(* Dish profiles (vision.py, class DishProfile).                           *)
(***************************************************************************)
\* DishProfile.__init__: a profile without references.
NewProfile(name, ingredients) ==
  [dish_name |-> name, ingredients |-> ingredients,
   reference_features |-> <<>>, reference_image_paths |-> <<>>]

AddReferenceInFront(profile, image, image_path) ==
  [profile EXCEPT
     !.reference_features =
        <<[embedding |-> image.embedding,
           color_histogram |-> image.color_histogram,
           source_path |-> image_path]>> \o @,
     !.reference_image_paths = <<image_path>> \o @]

\* DishProfile.add_reference: one entry appended to each list.
add_reference(profile, image, image_path) ==
  [profile EXCEPT
     !.reference_features =
        Append(@, [embedding |-> image.embedding,
                   color_histogram |-> image.color_histogram,
                   source_path |-> image_path]),
     !.reference_image_paths = Append(@, image_path)]

\* DishProfile.get_reference_features: the two descriptors of every entry.
get_reference_features(profile) ==
  [i \in 1..Len(profile.reference_features) |->
     [embedding |-> profile.reference_features[i].embedding,
      color_histogram |-> profile.reference_features[i].color_histogram]]

(***************************************************************************)
(* Score Composer (scorer.py).                                             *)
(***************************************************************************)
MethodFull == "visual_embedding + color_histogram + claude_vision"
MethodFallback == "visual_embedding + color_histogram (claude unavailable)"

ScoreToLabelExclusive(score) ==
  IF score > 850 THEN "Excellent"
  ELSE IF score > 700 THEN "Good"
  ELSE IF score > 500 THEN "Needs Improvement"
  ELSE "Poor"

_score_to_label(score) ==
  IF score >= 850 THEN "Excellent"
  ELSE IF score >= 700 THEN "Good"
  ELSE IF score >= 500 THEN "Needs Improvement"
  ELSE "Poor"

\* The weighted sum of step 3, in hundredths of a tenth of a point.
RawScoreAlwaysFull(vs, cs, claude_score) ==
  vs * settings.weights.VISUAL_SIMILARITY_WEIGHT
  + cs * settings.weights.COLOR_SIMILARITY_WEIGHT
  + claude_score.val * 10 * settings.weights.CLAUDE_SCORE_WEIGHT

RawScore(vs, cs, claude_score) ==
  IF claude_score.present
  THEN vs * settings.weights.VISUAL_SIMILARITY_WEIGHT
       + cs * settings.weights.COLOR_SIMILARITY_WEIGHT
       + claude_score.val * 10 * settings.weights.CLAUDE_SCORE_WEIGHT
  ELSE vs * 65 + cs * 35

ScoreMethod(claude_available) ==
  IF claude_available THEN MethodFull ELSE MethodFallback

\* round(min(max(final_score, 0.0), 100.0), 1), in tenths.
ClampRoundNoClamp(raw) == PyRound(Max2(raw, 0), 100)
ClampRound(raw) == PyRound(Min2(Max2(raw, 0), 100000), 100)

\* What an analysis call did before it ended.
NoTrace ==
  [extracted |-> FALSE, compared |-> FALSE, judged |-> FALSE,
   cmp |-> [best_score |-> 0, best_idx |-> 0, best_breakdown |-> EmptyBreakdown],
   adapter |-> _fallback_response]

NoBreakdown ==
  [final_score |-> 0, visual_structure_score |-> 0, color_score |-> 0,
   claude_ai_score |-> NoScore, scoring_method |-> "",
   weights |-> [visual_structure |-> 0, color |-> 0, claude_ai |-> 0]]

\* A result without a score: a raised exception (out = "raise") or a
\* returned {"success": False, "error": ...}.
Failure(out, error, trace) ==
  [out |-> out, success |-> FALSE, error |-> error, match_percentage |-> 0,
   quality_label |-> "", score_breakdown |-> NoBreakdown,
   reference_images_used |-> 0, trace |-> trace]

\* analyze_food_image.  env.extract_ok: extract_features does not raise;
\* env.adapter: what the judgment adapter meets.  The first reference image
\* is handed to the adapter when its file can be opened.
analyze_food_image(query_image, dish_profile, env) ==
  LET reference_features == get_reference_features(dish_profile)
      t1 == [NoTrace EXCEPT !.extracted = TRUE]
      cmp == compare_to_reference(query_image, reference_features)
      t2 == [t1 EXCEPT !.compared = TRUE, !.cmp = cmp]
      reference_image ==
        /\ dish_profile.reference_image_paths # <<>>
        /\ dish_profile.reference_image_paths[1] \in refdir
      claude_result == analyze_with_claude(reference_image, env.adapter)
      t3 == [t2 EXCEPT !.judged = TRUE, !.adapter = claude_result]
      claude_available == claude_result.claude_score.present
      vb == cmp.best_breakdown
      final_score ==
        ClampRound(RawScore(vb.visual_structure_score, vb.color_score,
                            claude_result.claude_score))
  IN  IF ~env.extract_ok THEN Failure("raise", "extract_features", t1)
      ELSE IF reference_features = <<>> THEN Failure("return", "no reference images", t1)
      ELSE IF claude_result.out = "raise" THEN Failure("raise", "analyze_with_claude", t3)
      ELSE IF ~vb.present THEN Failure("raise", "KeyError", t3)
      ELSE [out |-> "return", success |-> TRUE, error |-> "",
            match_percentage |-> final_score,
            quality_label |-> _score_to_label(final_score),
            score_breakdown |->
              [final_score |-> final_score,
               visual_structure_score |-> vb.visual_structure_score,
               color_score |-> vb.color_score,
               claude_ai_score |-> claude_result.claude_score,
               scoring_method |-> ScoreMethod(claude_available),
               weights |->
                 [visual_structure |-> settings.weights.VISUAL_SIMILARITY_WEIGHT,
                  color |-> settings.weights.COLOR_SIMILARITY_WEIGHT,
                  claude_ai |-> IF claude_available
                                THEN settings.weights.CLAUDE_SCORE_WEIGHT ELSE 0]],
            reference_images_used |-> Len(reference_features),
            trace |-> t3]

(***************************************************************************)
(* Profile persistence (DishProfile.save / DishProfile.load).              *)
(***************************************************************************)
NoProfile == NewProfile("", "")

Absent == [state |-> "absent", profile |-> NoProfile]
Truncated == [state |-> "truncated", profile |-> NoProfile]
Stored(profile) == [state |-> "ok", profile |-> profile]

\* Profiles with n references whose images are stored as paths 1..n.
RECURSIVE ProfilesWith(_)
ProfilesWith(n) ==
  IF n = 0 THEN { NewProfile("Dish", "ing0") }
  ELSE { add_reference(p, img, n) : p \in ProfilesWith(n - 1), img \in Features }

(***************************************************************************)
(* Inputs of an analysis call.                                             *)
(***************************************************************************)
\* An uploaded file: its declared content type is allowed or not, its size
\* is within MAX_IMAGE_SIZE_MB or not, load_image decodes it or raises.
AnyImage == CHOOSE f \in Features : TRUE

Uploads ==
  { [type_ok |-> FALSE, size_ok |-> TRUE, decodable |-> TRUE, image |-> AnyImage],
    [type_ok |-> TRUE, size_ok |-> FALSE, decodable |-> TRUE, image |-> AnyImage],
    [type_ok |-> TRUE, size_ok |-> TRUE, decodable |-> FALSE, image |-> AnyImage] }
  \cup { [type_ok |-> TRUE, size_ok |-> TRUE, decodable |-> TRUE, image |-> img] :
           img \in Features }

\* An adapter environment in which nothing fails.
GoodAdapterEnv ==
  [lib_ok |-> TRUE, encode_ref_ok |-> TRUE, encode_query_ok |-> TRUE,
   service |-> GoodResponse]

\* extract_features raises or not; when it does the adapter is never reached.
AnalysisEnvs ==
  { [extract_ok |-> TRUE, adapter |-> a] : a \in AdapterEnvs }
  \cup { [extract_ok |-> FALSE, adapter |-> GoodAdapterEnv] }

NoUpload == CHOOSE u \in Uploads : ~u.type_ok
NoEnv == CHOOSE e \in AnalysisEnvs : ~e.extract_ok

NoResp ==
  [entry |-> "none", status |-> 0, detail |-> "", loaded |-> NoProfile,
   upload |-> NoUpload, env |-> NoEnv,
   result |-> Failure("return", "", NoTrace)]

\* An HTTPException raised before analyze_food_image is called.
Rejected(entry, status, detail, loaded, upload, env) ==
  [entry |-> entry, status |-> status, detail |-> detail, loaded |-> loaded,
   upload |-> upload, env |-> env, result |-> Failure("return", "", NoTrace)]

(***************************************************************************)
(* POST /analyze/{dish_id} (routers/analyze.py, analyze_image).            *)
(***************************************************************************)
\* loaded: what DishProfile.load found for the dish.
analyze_image(loaded, upload, env) ==
  LET profile == loaded.profile
      result == analyze_food_image(upload.image, profile, env)
  IN  IF loaded.state = "absent"
      THEN Rejected("analyze_image", 404, "not found", NoProfile, upload, env)
      ELSE IF profile.reference_features = <<>>
      THEN Rejected("analyze_image", 422, "no reference images", profile, upload, env)
      ELSE IF ~upload.type_ok
      THEN Rejected("analyze_image", 415, "unsupported type", profile, upload, env)
      ELSE IF ~upload.size_ok
      THEN Rejected("analyze_image", 413, "too large", profile, upload, env)
      ELSE IF ~upload.decodable
      THEN Rejected("analyze_image", 400, "could not decode", profile, upload, env)
      ELSE [entry |-> "analyze_image",
            status |-> IF result.out = "return" /\ result.success THEN 200 ELSE 500,
            detail |-> result.error, loaded |-> profile,
            upload |-> upload, env |-> env, result |-> result]

\* An analysis call changes nothing a later call reads, so one call from
\* every stored state covers them all.
AnalyzeImage ==
  /\ resp.entry = "none"
  /\ file.state # "truncated"
  /\ \E upload \in Uploads, env \in AnalysisEnvs :
       resp' = analyze_image(file, upload, env)
  /\ UNCHANGED <<settings, ref_dir_exists, file, refdir, uploads, bi, results, bresp, procs>>

\* analyze_food_image called on a loaded profile, as the module's callers
\* other than the two endpoints may.
AnalyzeFoodImage ==
  /\ resp.entry = "none"
  /\ file.state = "ok"
  /\ \E img \in Features, env \in AnalysisEnvs :
       LET result == analyze_food_image(img, file.profile, env)
       IN  resp' = [entry |-> "analyze_food_image",
                    status |-> 0, detail |-> result.error,
                    loaded |-> file.profile,
                    upload |-> [type_ok |-> TRUE, size_ok |-> TRUE,
                                decodable |-> TRUE, image |-> img],
                    env |-> env, result |-> result]
  /\ UNCHANGED <<settings, ref_dir_exists, file, refdir, uploads, bi, results, bresp, procs>>

(***************************************************************************)
(* Sequential specification: analysis calls against a stored profile.      *)
(***************************************************************************)
Init ==
  /\ settings \in SettingsSet
  /\ file \in {Absent} \cup { Stored(p) : p \in UNION { ProfilesWith(n) : n \in 0..MaxRefs } }
  /\ refdir \in { {}, 1..Len(file.profile.reference_image_paths) }
  /\ ref_dir_exists = (refdir # {})
  /\ resp = NoResp
  /\ uploads = <<>>
  /\ bi = 0
  /\ results = <<>>
  /\ bresp = NoResp
  /\ procs = <<>>

Next == AnalyzeImage \/ AnalyzeFoodImage

Spec == Init /\ [][Next]_vars

(***************************************************************************)
(* Properties of the analysis pipeline, checked under Spec.                *)
(***************************************************************************)
\* The call that produced resp got as far as compare_to_reference.
Compared == resp.entry # "none" /\ resp.result.trace.compared
\* The call that produced resp invoked the judgment adapter.
Judged == resp.entry # "none" /\ resp.result.trace.judged
\* The call that produced resp returned a scored result.
Scored == resp.entry # "none" /\ resp.result.out = "return" /\ resp.result.success

RespRefs == get_reference_features(resp.loaded)
RespQuery == resp.upload.image
RespCmp == resp.result.trace.cmp

\* combined = embSim*embeddingWeight + colorSim*colorWeight of one
\* reference, as section 4.3 of the specification states it (1/2500ths).
CombinedOf(q, ref) ==
  cosine_similarity(q.embedding, ref.embedding) * 65
  + cosine_similarity(q.color_histogram, ref.color_histogram) * 35

\* C1: for a non-empty reference list, the best score compare_to_reference
\* returns is the maximum combined score of the list, and the reference
\* whose scores it reports is the first list entry that attains that
\* maximum: every other reference's combined score is less than or equal,
\* and every earlier one's strictly less.
C1_BestMatchIsFirstArgMax ==
  Compared =>
    /\ \A i \in 1..Len(RespRefs) : CombinedOf(RespQuery, RespRefs[i]) <= RespCmp.best_score
    /\ \E i \in 1..Len(RespRefs) : CombinedOf(RespQuery, RespRefs[i]) = RespCmp.best_score
    /\ RespCmp.best_breakdown.present =>
         /\ RespCmp.best_idx \in 1..Len(RespRefs)
         /\ CombinedOf(RespQuery, RespRefs[RespCmp.best_idx]) = RespCmp.best_score
         /\ \A j \in 1..(RespCmp.best_idx - 1) :
              CombinedOf(RespQuery, RespRefs[j]) < RespCmp.best_score
         /\ RespCmp.best_breakdown.visual_structure_score =
              40 * cosine_similarity(RespQuery.embedding,
                                     RespRefs[RespCmp.best_idx].embedding)
         /\ RespCmp.best_breakdown.color_score =
              40 * cosine_similarity(RespQuery.color_histogram,
                                     RespRefs[RespCmp.best_idx].color_histogram)

\* Two different references tie at the maximum and the first is reported.
C1_Witness ==
  /\ Compared
  /\ Len(RespRefs) >= 2
  /\ RespRefs[1] # RespRefs[2]
  /\ RespCmp.best_score > 0
  /\ CombinedOf(RespQuery, RespRefs[1]) = RespCmp.best_score
  /\ CombinedOf(RespQuery, RespRefs[2]) = RespCmp.best_score
  /\ RespCmp.best_idx = 1

\* C2: whenever compare_to_reference ran on a non-empty reference list it
\* returned a breakdown holding visual_structure_score and color_score, and
\* the analysis did not raise for want of them.
C2_BreakdownAlwaysCarriesScores ==
  Compared =>
    /\ RespCmp.best_breakdown.present
    /\ ~(resp.result.out = "raise" /\ resp.result.error = "KeyError")

\* C3: a call against an existing profile with zero references ends not
\* ready (422 from an endpoint, success = False from analyze_food_image)
\* with no feature extraction, no comparison, no adapter call and no score.
C3_NotReadyBeforeAnyWork ==
  (/\ resp.entry # "none"
   /\ resp.status # 404
   /\ resp.loaded.reference_features = <<>>)
  =>
    /\ IF resp.entry = "analyze_food_image"
       THEN resp.result.out = "return" /\ ~resp.result.success
       ELSE resp.status = 422
    /\ ~resp.result.trace.extracted
    /\ ~resp.result.trace.compared
    /\ ~resp.result.trace.judged

\* C4: in every scored result, an absent claude_score goes with the
\* weights 0.65/0.35 on the two visual scores and the fallback tag, a
\* present one with the three configured weights and the full tag.
C4_WeightsMatchAvailability ==
  Scored =>
    LET b == resp.result.score_breakdown
        vs == b.visual_structure_score
        cs == b.color_score
        w == settings.weights
        clamp(x) == Min2(Max2(x, 0), 100000)
    IN  /\ b.claude_ai_score = resp.result.trace.adapter.claude_score
        /\ resp.result.match_percentage = b.final_score
        /\ IF b.claude_ai_score.present
           THEN /\ b.final_score =
                     PyRound(clamp(vs * w.VISUAL_SIMILARITY_WEIGHT
                                   + cs * w.COLOR_SIMILARITY_WEIGHT
                                   + b.claude_ai_score.val * 10 * w.CLAUDE_SCORE_WEIGHT),
                             100)
                /\ b.scoring_method = "visual_embedding + color_histogram + claude_vision"
           ELSE /\ b.final_score = PyRound(clamp(vs * 65 + cs * 35), 100)
                /\ b.scoring_method =
                     "visual_embedding + color_histogram (claude unavailable)"

\* The adapter was configured, failed, and the result is fallback-weighted.
C4_Witness ==
  /\ Scored
  /\ settings.ANTHROPIC_API_KEY
  /\ resp.env.adapter.service.kind = "error"
  /\ ~resp.result.score_breakdown.claude_ai_score.present
  /\ resp.result.score_breakdown.visual_structure_score = 600
  /\ resp.result.score_breakdown.color_score = 1000
  /\ resp.result.match_percentage = 740

\* The ways the adapter can fail, from what it met.
AdapterFailure(env, has_reference_image) ==
  \/ ~settings.ANTHROPIC_API_KEY
  \/ ~env.lib_ok
  \/ has_reference_image /\ ~env.encode_ref_ok
  \/ ~env.encode_query_ok
  \/ env.service.kind = "error"
  \/ env.service.prefix \notin {"", "fence_json", "fence"}
  \/ env.service.suffix \notin {"", "fence"}
  \/ ~env.service.payload.valid
  \/ env.service.payload.shape # "object"
  \/ env.service.payload.score.kind \in {"null", "text"}

RespHasReferenceImage ==
  /\ resp.loaded.reference_image_paths # <<>>
  /\ resp.loaded.reference_image_paths[1] \in refdir

\* C5: every adapter failure becomes the unavailability result, and the
\* analysis of a ready profile whose comparison gave a breakdown returns
\* success with the fallback weighting.
C5_AdapterFailuresAbsorbed ==
  (Judged /\ AdapterFailure(resp.env.adapter, RespHasReferenceImage)) =>
    /\ resp.result.trace.adapter.out = "return"
    /\ ~resp.result.trace.adapter.claude_score.present
    /\ RespCmp.best_breakdown.present =>
         /\ resp.result.out = "return" /\ resp.result.success
         /\ resp.result.score_breakdown.scoring_method =
              "visual_embedding + color_histogram (claude unavailable)"

\* C6: the adapter returns a number only when the service's answer held a
\* numeric claude_score.
C6_ScoreOnlyWhenServiceGaveOne ==
  (Judged /\ resp.result.trace.adapter.out = "return"
          /\ resp.result.trace.adapter.claude_score.present)
  =>
    /\ resp.env.adapter.service.kind = "text"
    /\ resp.env.adapter.service.payload.shape = "object"
    /\ resp.env.adapter.service.payload.score.kind = "number"
    /\ resp.result.trace.adapter.claude_score.val =
         resp.env.adapter.service.payload.score.num

\* C10: every scored result has match_percentage in [0, 100], whatever the
\* weights and the adapter's number; in particular for sub-scores in
\* [0, 100] and weights that sum to 1.0, in both combinations.
C10_MatchPercentageInRange ==
  Scored =>
    /\ resp.result.match_percentage \in 0..1000
    /\ resp.result.score_breakdown.final_score \in 0..1000

\* Normalised weights, all three sub-scores at 100: the full combination
\* gives exactly 100.0.
C10_Witness ==
  /\ Scored
  /\ settings.weights.VISUAL_SIMILARITY_WEIGHT + settings.weights.COLOR_SIMILARITY_WEIGHT
       + settings.weights.CLAUDE_SCORE_WEIGHT = 100
  /\ resp.result.score_breakdown.claude_ai_score = SomeScore(100)
  /\ resp.result.score_breakdown.visual_structure_score = 1000
  /\ resp.result.score_breakdown.color_score = 1000
  /\ resp.result.match_percentage = 1000

(***************************************************************************)
(* Steps 3 and 4 of analyze_food_image for every weighted sum: the images  *)
(* and weights above give few of the scores in [0, 100], so the clamp, the *)
(* rounding and the label are also applied to weighted sums half a tenth   *)
(* apart, from below 0 to above 100.                                       *)
(***************************************************************************)
RawScores == { 50 * k : k \in (0 - 4)..2004 }

ScoreAndLabel ==
  /\ resp.entry = "none"
  /\ file.state = "ok"
  /\ file.profile.reference_features # <<>>
  /\ \E raw \in RawScores :
       LET final_score == ClampRound(raw)
       IN  resp' = [entry |-> "score_and_label", status |-> 0, detail |-> "",
                    loaded |-> file.profile, upload |-> NoUpload, env |-> NoEnv,
                    result |->
                      [out |-> "return", success |-> TRUE, error |-> "",
                       match_percentage |-> final_score,
                       quality_label |-> _score_to_label(final_score),
                       score_breakdown |->
                         [NoBreakdown EXCEPT !.final_score = final_score],
                       reference_images_used |-> Len(file.profile.reference_features),
                       trace |-> NoTrace]]
  /\ UNCHANGED <<settings, ref_dir_exists, file, refdir, uploads, bi, results, bresp, procs>>

\* One trained dish, one call.
InitLabel ==
  /\ settings \in SettingsSet
  /\ file \in { Stored(p) : p \in ProfilesWith(1) }
  /\ refdir \in { {}, {1} }
  /\ ref_dir_exists = (refdir # {})
  /\ resp = NoResp
  /\ uploads = <<>>
  /\ bi = 0
  /\ results = <<>>
  /\ bresp = NoResp
  /\ procs = <<>>

NextLabel == AnalyzeImage \/ AnalyzeFoodImage \/ ScoreAndLabel

SpecLabel == InitLabel /\ [][NextLabel]_vars

\* C11: in every successful analysis result the quality label follows from
\* the final match_percentage alone, by inclusive lower bounds taken highest
\* first: 85.0 and above is "Excellent", 70.0 up to 84.9 is "Good", 50.0 up
\* to 69.9 is "Needs Improvement", below 50.0 is "Poor".
C11_LabelFollowsThresholds ==
  Scored =>
    LET m == resp.result.match_percentage
        l == resp.result.quality_label
    IN  /\ m >= 850 => l = "Excellent"
        /\ (700 <= m /\ m < 850) => l = "Good"
        /\ (500 <= m /\ m < 700) => l = "Needs Improvement"
        /\ m < 500 => l = "Poor"

\* An analysis through the endpoint whose weighted sum is exactly 85.0.
C11_Witness ==
  /\ Scored
  /\ resp.entry = "analyze_image"
  /\ resp.result.match_percentage = 850
  /\ resp.result.quality_label = "Excellent"

\* C16: in every successful analysis result the weights reported in
\* score_breakdown.weights are the weights the final score was computed
\* with: the three configured weights in the full combination; 65% visual
\* structure, 35% color and 0 for the judgment in the fallback combination.
C16_ReportedWeightsAreApplied ==
  Scored =>
    LET sb == resp.result.score_breakdown
        w == sb.weights
        applied == sb.visual_structure_score * w.visual_structure
                   + sb.color_score * w.color
                   + sb.claude_ai_score.val * 10 * w.claude_ai
    IN  /\ resp.result.match_percentage = ClampRound(applied)
        /\ IF sb.claude_ai_score.present
           THEN w = [visual_structure |-> settings.weights.VISUAL_SIMILARITY_WEIGHT,
                     color |-> settings.weights.COLOR_SIMILARITY_WEIGHT,
                     claude_ai |-> settings.weights.CLAUDE_SCORE_WEIGHT]
           ELSE w = [visual_structure |-> 65, color |-> 35, claude_ai |-> 0]

(***************************************************************************)
(* POST /analyze/batch/{dish_id} (routers/analyze.py, analyze_batch).      *)
(***************************************************************************)
\* One image of the batch: whether load_image decodes it, what it shows,
\* and what its analysis meets.
BatchUploads ==
  { [decodable |-> FALSE, image |-> AnyImage,
     env |-> [extract_ok |-> TRUE, adapter |-> GoodAdapterEnv]],
    [decodable |-> TRUE, image |-> AnyImage,
     env |-> [extract_ok |-> FALSE, adapter |-> GoodAdapterEnv]] }
  \cup { [decodable |-> TRUE, image |-> img,
          env |-> [extract_ok |-> TRUE, adapter |-> GoodAdapterEnv]] : img \in Features }
  \cup { [decodable |-> TRUE, image |-> AnyImage,
          env |-> [extract_ok |-> TRUE, adapter |-> [GoodAdapterEnv EXCEPT !.lib_ok = FALSE]]],
         [decodable |-> TRUE, image |-> AnyImage,
          env |-> [extract_ok |-> TRUE,
                   adapter |-> [GoodAdapterEnv EXCEPT !.service.kind = "error"]]] }

NoBatchResp ==
  [state |-> "none", status |-> 0, loaded |-> NoProfile, images_analyzed |-> 0,
   successful |-> 0, average_score |-> 0, results |-> <<>>]

\* The body of the loop for the image enumerate() numbers i: the result
\* dict with its index, or the failed entry the except clause builds.
batch_item(upload, i, profile) ==
  LET result == analyze_food_image(upload.image, profile, upload.env)
  IN  IF ~upload.decodable
      THEN [success |-> FALSE, image_index |-> i, error |-> "could not decode",
            match_percentage |-> 0]
      ELSE IF result.out = "raise"
      THEN [success |-> FALSE, image_index |-> i, error |-> result.error,
            match_percentage |-> 0]
      ELSE [success |-> result.success, image_index |-> i, error |-> result.error,
            match_percentage |-> result.match_percentage]

\* successful = [r for r in results if r.get("success")]
SuccessfulAll(rs) == rs
Successful(rs) == SelectSeq(rs, LAMBDA r : r.success)

\* round(avg_score, 1) of sum/n.  The quotient is a binary float, so when
\* the exact mean lies halfway between two tenths either may come out.
RoundedMeans(sum, n) ==
  IF (2 * (sum % n)) = n THEN { sum \div n, (sum \div n) + 1 }
  ELSE { PyRound(sum, n) }

\* The load and the two checks that precede the loop.
BatchStart ==
  /\ bresp.state = "none"
  /\ file.state # "truncated"
  /\ bresp' =
       IF file.state = "absent"
       THEN [NoBatchResp EXCEPT !.state = "done", !.status = 404]
       ELSE IF file.profile.reference_features = <<>>
       THEN [NoBatchResp EXCEPT !.state = "done", !.status = 422,
                                !.loaded = file.profile]
       ELSE [NoBatchResp EXCEPT !.state = "loop", !.loaded = file.profile]
  /\ UNCHANGED <<settings, ref_dir_exists, file, refdir, resp, uploads, bi, results, procs>>

\* One iteration: await upload.read(), decode, analyze, append.
BatchItem ==
  /\ bresp.state = "loop"
  /\ bi < Len(uploads)
  /\ results' = Append(results, batch_item(uploads[bi + 1], bi, bresp.loaded))
  /\ bi' = bi + 1
  /\ UNCHANGED <<settings, ref_dir_exists, file, refdir, resp, uploads, bresp, procs>>

\* The summary and the response.
BatchFinish ==
  /\ bresp.state = "loop"
  /\ bi = Len(uploads)
  /\ LET successful == Successful(results)
         total == SumSeq([k \in 1..Len(successful) |-> successful[k].match_percentage])
     IN  \E avg \in (IF successful # <<>> THEN RoundedMeans(total, Len(successful))
                     ELSE {0}) :
           bresp' = [bresp EXCEPT !.state = "done", !.status = 200,
                                  !.images_analyzed = Len(results),
                                  !.successful = Len(successful),
                                  !.average_score = avg,
                                  !.results = results]
  /\ UNCHANGED <<settings, ref_dir_exists, file, refdir, resp, uploads, bi, results, procs>>

RECURSIVE SeqsUpTo(_, _)
SeqsUpTo(S, n) ==
  IF n = 0 THEN { <<>> }
  ELSE LET shorter == SeqsUpTo(S, n - 1)
       IN  shorter \cup { Append(s, x) : s \in shorter, x \in S }

InitBatch ==
  /\ settings \in SettingsSet
  /\ file \in {Absent} \cup { Stored(p) : p \in ProfilesWith(0) \cup ProfilesWith(1) }
  /\ refdir = 1..Len(file.profile.reference_image_paths)
  /\ ref_dir_exists = (refdir # {})
  /\ resp = NoResp
  /\ uploads \in SeqsUpTo(BatchUploads, MaxBatch) \ { <<>> }
  /\ bi = 0
  /\ results = <<>>
  /\ bresp = NoBatchResp
  /\ procs = <<>>

NextBatch == BatchStart \/ BatchItem \/ BatchFinish

SpecBatch == InitBatch /\ [][NextBatch]_vars

\* C7: a finished batch of n images has n entries, entry k carrying index
\* k (counted from 0) for the k-th upload; an entry is failed, with an
\* error, exactly when its own image did not decode or its own analysis
\* raised, and is otherwise scored as that image alone would be; the
\* summary counts and averages the successful entries only (0 if none).
C7_BatchIsolatesFailures ==
  bresp.status = 200 =>
    LET rs == bresp.results
        ok == { k \in 1..Len(rs) : rs[k].success }
        total == SumSeq([k \in 1..Len(rs) |->
                           IF rs[k].success THEN rs[k].match_percentage ELSE 0])
        n == Cardinality(ok)
        diff == bresp.average_score * n - total
    IN  /\ Len(rs) = Len(uploads)
        /\ bresp.images_analyzed = Len(uploads)
        /\ \A k \in 1..Len(rs) :
             LET alone == analyze_food_image(uploads[k].image, bresp.loaded, uploads[k].env)
                 fine == uploads[k].decodable /\ alone.out = "return" /\ alone.success
             IN  /\ rs[k].image_index = k - 1
                 /\ rs[k].success <=> fine
                 /\ rs[k].success => rs[k].match_percentage = alone.match_percentage
                 /\ ~rs[k].success => rs[k].error # ""
        /\ bresp.successful = n
        /\ IF n = 0 THEN bresp.average_score = 0
           ELSE 2 * diff <= n /\ 2 * (0 - diff) <= n

\* The first image does not decode, the second is scored, and the summary
\* is that of the second alone.
C7_Witness ==
  /\ bresp.status = 200
  /\ Len(bresp.results) >= 2
  /\ ~uploads[1].decodable
  /\ ~bresp.results[1].success
  /\ bresp.results[2].success
  /\ bresp.results[2].match_percentage > 0
  /\ bresp.successful = 1
  /\ bresp.average_score = bresp.results[2].match_percentage

(***************************************************************************)
(* Concurrent calls on one dish.  Nothing in the handlers locks a profile: *)
(* each call loads the pickle, works on its own copy and writes it back.   *)
(* Calls are served by the event loop, by threadpool threads (the plain    *)
(* def handlers) and by however many server processes share the storage    *)
(* directory, so a call's steps are its file operations and its awaits,    *)
(* and the steps of different calls interleave freely.                     *)
(***************************************************************************)
NumCalls == 2

Calls == 1..NumCalls

CallKinds == {"train", "update", "analyze"}

\* The file name uuid4 gives image j of call p: unlike any other.
NewPath(p, j) == 100 * p + j

\* The ingredient list call p puts.
NewIngredients(p) == IF p = 1 THEN "ing1" ELSE IF p = 2 THEN "ing2" ELSE "ing3"

NewCall(kind) ==
  [kind |-> kind, pc |-> "start", status |-> 0, detail |-> "",
   loaded |-> NoProfile, profile |-> NoProfile, k |-> 0, processed |-> {}]

Finish(c, status, detail) == [c EXCEPT !.pc = "done", !.status = status, !.detail = detail]

\* The name a create call p gives the dish.
NewName(p) == IF p = 1 THEN "Dish1" ELSE IF p = 2 THEN "Dish2" ELSE "Dish3"

\* DishProfile.load, first half: os.path.exists(path); None when it is not
\* there, which create_dish takes as leave to build and save a new profile
\* and every other handler answers with 404.
LoadExists(p) ==
  /\ procs[p].pc = "start"
  /\ procs' = [procs EXCEPT ![p] =
                 IF file.state # "absent" THEN [@ EXCEPT !.pc = "open"]
                 ELSE IF @.kind = "create"
                 THEN [@ EXCEPT !.profile = NewProfile(NewName(p), NewIngredients(p)),
                                !.pc = "truncate"]
                 ELSE Finish(@, 404, "not found")]
  /\ UNCHANGED <<settings, ref_dir_exists, file, refdir, resp, uploads, bi, results, bresp>>

ClearFeaturesOnly(profile) == [profile EXCEPT !.reference_features = <<>>]

\* reset_references: both lists are set to [].
ClearReferences(profile) ==
  [profile EXCEPT !.reference_features = <<>>, !.reference_image_paths = <<>>]

\* What the handler does with the loaded profile up to its next file
\* operation or await.
AfterLoad(c, p, profile) ==
  LET l == [c EXCEPT !.loaded = profile, !.profile = profile]
  IN  IF c.kind = "create" THEN Finish(l, 409, "already exists")
      ELSE IF c.kind = "get" THEN Finish(l, 200, "found")
      ELSE IF c.kind = "update"
      THEN [l EXCEPT !.profile = [profile EXCEPT !.ingredients = NewIngredients(p)],
                     !.pc = "truncate"]
      ELSE IF c.kind = "delete" THEN [l EXCEPT !.pc = "remove"]
      ELSE IF c.kind = "reset"
      THEN [l EXCEPT !.profile = ClearReferences(profile), !.pc = "rmtree"]
      ELSE IF c.kind = "train" THEN [l EXCEPT !.pc = "images"]
      ELSE IF profile.reference_features = <<>>
      THEN Finish(l, 422, "no reference images")
      ELSE [l EXCEPT !.pc = "analyze"]

\* DishProfile.load, second half: open(path, "rb") and pickle.load.  A file
\* that save has opened and not yet written holds no complete pickle, and
\* pickle.load raises.  upload_reference_images goes on to
\* os.makedirs(dish_ref_dir, exist_ok=True).
LoadRead(p) ==
  /\ procs[p].pc = "open"
  /\ procs' = [procs EXCEPT ![p] =
                 IF file.state = "absent" THEN Finish(@, 500, "FileNotFoundError")
                 ELSE IF file.state = "truncated" THEN Finish(@, 500, "unreadable")
                 ELSE AfterLoad(@, p, file.profile)]
  /\ ref_dir_exists' = (ref_dir_exists \/ (procs[p].kind = "train" /\ file.state = "ok"))
  /\ UNCHANGED <<settings, file, refdir, resp, uploads, bi, results, bresp>>

\* upload_reference_images, one iteration of the loop: the image is
\* rejected or fails (ok = FALSE), or it is stored under a new name and
\* added to the call's copy of the profile; image.save raises when the
\* directory is gone.  After the last image the profile is saved if any
\* image was processed.
TrainImage(p) ==
  /\ procs[p].kind = "train"
  /\ procs[p].pc = "images"
  /\ \E ok \in IF ref_dir_exists THEN BOOLEAN ELSE {FALSE} :
       LET c == procs[p]
           j == c.k + 1
           c1 == IF ok
                 THEN [c EXCEPT !.k = j,
                                !.profile = add_reference(@, AnyImage, NewPath(p, j)),
                                !.processed = @ \cup {NewPath(p, j)}]
                 ELSE [c EXCEPT !.k = j]
       IN  /\ refdir' = IF ok THEN refdir \cup {NewPath(p, j)} ELSE refdir
           /\ procs' = [procs EXCEPT ![p] =
                          IF j < MaxImages THEN c1
                          ELSE IF c1.processed # {} THEN [c1 EXCEPT !.pc = "truncate"]
                          ELSE Finish(c1, 200, "no image processed")]
  /\ UNCHANGED <<settings, ref_dir_exists, file, resp, uploads, bi, results, bresp>>

\* DishProfile.save, first half: open(path, "wb") creates or empties the
\* file.
SaveOpen(p) ==
  /\ procs[p].pc = "truncate"
  /\ file' = Truncated
  /\ procs' = [procs EXCEPT ![p].pc = "dump"]
  /\ UNCHANGED <<settings, ref_dir_exists, refdir, resp, uploads, bi, results, bresp>>

\* DishProfile.save, second half: pickle.dump and close; the handler
\* returns.  A file removed since it was opened stays removed: the dump
\* goes to the unlinked file.
SaveDump(p) ==
  /\ procs[p].pc \in {"dump", "dump_unlinked"}
  /\ file' = IF procs[p].pc = "dump" THEN Stored(procs[p].profile) ELSE file
  /\ procs' = [procs EXCEPT ![p] = Finish(@, 200, "saved")]
  /\ UNCHANGED <<settings, ref_dir_exists, refdir, resp, uploads, bi, results, bresp>>

\* delete_dish: os.remove(model_path) when the file exists.
DeleteRemove(p) ==
  /\ procs[p].pc = "remove"
  /\ file' = Absent
  /\ procs' = [q \in DOMAIN procs |->
                 IF q = p THEN [procs[q] EXCEPT !.pc = "rmdir"]
                 ELSE IF procs[q].pc = "dump" THEN [procs[q] EXCEPT !.pc = "dump_unlinked"]
                 ELSE procs[q]]
  /\ UNCHANGED <<settings, ref_dir_exists, refdir, resp, uploads, bi, results, bresp>>

\* delete_dish: shutil.rmtree(ref_dir) when the directory exists; the
\* handler returns.
DeleteRmtree(p) ==
  /\ procs[p].pc = "rmdir"
  /\ refdir' = {}
  /\ ref_dir_exists' = FALSE
  /\ procs' = [procs EXCEPT ![p] = Finish(@, 200, "deleted")]
  /\ UNCHANGED <<settings, file, resp, uploads, bi, results, bresp>>

\* reset_references: shutil.rmtree(dish_ref_dir) and os.makedirs when the
\* directory exists, then the emptied profile is saved.
ResetRmtree(p) ==
  /\ procs[p].pc = "rmtree"
  /\ refdir' = {}
  /\ procs' = [procs EXCEPT ![p].pc = "truncate"]
  /\ UNCHANGED <<settings, ref_dir_exists, file, resp, uploads, bi, results, bresp>>

\* analyze_image from await image.read() on, against the profile loaded.
AnalyzeLoaded(p) ==
  /\ procs[p].kind = "analyze"
  /\ procs[p].pc = "analyze"
  /\ \E env \in { [extract_ok |-> TRUE, adapter |-> GoodAdapterEnv] } :
       LET r == analyze_image(Stored(procs[p].profile),
                              [type_ok |-> TRUE, size_ok |-> TRUE, decodable |-> TRUE,
                               image |-> AnyImage], env)
       IN  procs' = [procs EXCEPT ![p] = Finish(@, r.status, r.detail)]
  /\ UNCHANGED <<settings, ref_dir_exists, file, refdir, resp, uploads, bi, results, bresp>>

InitConc ==
  /\ settings = [ANTHROPIC_API_KEY |-> TRUE,
                 weights |-> [VISUAL_SIMILARITY_WEIGHT |-> 50,
                              COLOR_SIMILARITY_WEIGHT |-> 25,
                              CLAUDE_SCORE_WEIGHT |-> 25]]
  /\ file \in { Absent, Stored(NewProfile("Dish", "ing0")),
                Stored(add_reference(NewProfile("Dish", "ing0"), AnyImage, 1)) }
  /\ refdir = 1..Len(file.profile.reference_image_paths)
  /\ ref_dir_exists = (refdir # {})
  /\ resp = NoResp
  /\ uploads = <<>>
  /\ bi = 0
  /\ results = <<>>
  /\ bresp = NoBatchResp
  /\ procs \in [Calls -> { NewCall(kind) : kind \in CallKinds }]

NextConc ==
  \E p \in Calls :
    \/ LoadExists(p)
    \/ LoadRead(p)
    \/ TrainImage(p)
    \/ SaveOpen(p)
    \/ SaveDump(p)
    \/ AnalyzeLoaded(p)

SpecConc == InitConc /\ [][NextConc]_vars

AllDone == \A p \in Calls : procs[p].pc = "done"

\* A call that changed the profile and returned.
CompletedTraining(p) ==
  procs[p].kind = "train" /\ procs[p].pc = "done" /\ procs[p].detail = "saved"
CompletedUpdate(p) ==
  procs[p].kind = "update" /\ procs[p].pc = "done" /\ procs[p].detail = "saved"

StoredPaths ==
  { file.profile.reference_image_paths[i] :
      i \in 1..Len(file.profile.reference_image_paths) }

\* C8: once all calls on the dish have returned, the stored profile holds
\* every reference every completed training call appended, and, if an
\* ingredient update completed, the ingredient list of a completed update.
C8_NoLostMutation ==
  AllDone =>
    /\ \A p \in Calls :
         CompletedTraining(p) =>
           file.state = "ok" /\ procs[p].processed \subseteq StoredPaths
    /\ (\E p \in Calls : CompletedUpdate(p)) =>
         /\ file.state = "ok"
         /\ \E p \in Calls : CompletedUpdate(p)
                              /\ file.profile.ingredients = NewIngredients(p)

\* C9: an analysis call whose only company is training calls never fails
\* to load the profile: it reads a complete pickle.
C9_AnalysisNeverReadsTornProfile ==
  \A p \in Calls :
    (/\ procs[p].kind = "analyze"
     /\ \A q \in Calls \ {p} : procs[q].kind = "train")
    => ~(procs[p].pc = "done" /\ procs[p].status = 500)

(***************************************************************************)
(* The life of one dish: create, get, update, train, reset, analyze and    *)
(* delete calls, each a run of the file steps above.                       *)
(***************************************************************************)
LifeKinds == {"create", "get", "update", "train", "reset", "analyze", "delete"}

\* Any step of call p.
Step(p) ==
  \/ LoadExists(p)
  \/ LoadRead(p)
  \/ TrainImage(p)
  \/ ResetRmtree(p)
  \/ SaveOpen(p)
  \/ SaveDump(p)
  \/ DeleteRemove(p)
  \/ DeleteRmtree(p)
  \/ AnalyzeLoaded(p)

\* The dish before the calls: not there, created, or trained on one image.
InitFiles ==
  { Absent, Stored(NewProfile("Dish", "ing0")),
    Stored(add_reference(NewProfile("Dish", "ing0"), AnyImage, 1)) }

InitLife ==
  /\ settings = [ANTHROPIC_API_KEY |-> TRUE,
                 weights |-> [VISUAL_SIMILARITY_WEIGHT |-> 50,
                              COLOR_SIMILARITY_WEIGHT |-> 25,
                              CLAUDE_SCORE_WEIGHT |-> 25]]
  /\ file \in InitFiles
  /\ refdir = 1..Len(file.profile.reference_image_paths)
  /\ ref_dir_exists = (refdir # {})
  /\ resp = NoResp
  /\ uploads = <<>>
  /\ bi = 0
  /\ results = <<>>
  /\ bresp = NoBatchResp
  /\ procs \in [Calls -> { NewCall(kind) : kind \in LifeKinds }]

\* Calls in flight together.
NextLife == \E p \in Calls : Step(p)

SpecLife == InitLife /\ [][NextLife]_vars

\* Calls one after the other: a call takes its steps while no other call
\* is between its first step and its return.
MaxSeqCalls == 3

SeqCalls == 1..MaxSeqCalls

\* Call p is the next to run: the calls before it have returned and the
\* calls after it have not begun.  The calls' kinds are arbitrary, so every
\* sequence of MaxSeqCalls calls is among the behaviours.
InTurn(p) ==
  \A q \in DOMAIN procs :
    /\ q < p => procs[q].pc = "done"
    /\ q > p => procs[q].pc = "start"

InitSeq ==
  /\ settings = [ANTHROPIC_API_KEY |-> TRUE,
                 weights |-> [VISUAL_SIMILARITY_WEIGHT |-> 50,
                              COLOR_SIMILARITY_WEIGHT |-> 25,
                              CLAUDE_SCORE_WEIGHT |-> 25]]
  /\ file \in InitFiles
  /\ refdir = 1..Len(file.profile.reference_image_paths)
  /\ ref_dir_exists = (refdir # {})
  /\ resp = NoResp
  /\ uploads = <<>>
  /\ bi = 0
  /\ results = <<>>
  /\ bresp = NoBatchResp
  /\ procs \in [SeqCalls -> { NewCall(kind) : kind \in LifeKinds }]

NextSeq == \E p \in SeqCalls : InTurn(p) /\ Step(p)

SpecSeq == InitSeq /\ [][NextSeq]_vars

(***************************************************************************)
(* Properties of the life of a dish.                                       *)
(***************************************************************************)
\* Call p returned in this step.
Returns(p) == procs[p].pc # "done" /\ procs'[p].pc = "done"

\* Call p's save wrote its profile in this step.
Saves(p) == procs[p].pc = "dump" /\ procs'[p].pc = "done"

CompletedDelete(p) ==
  procs[p].kind = "delete" /\ procs[p].pc = "done" /\ procs[p].status = 200

\* No create call has taken a step.
NotCreatedAgain ==
  \A q \in DOMAIN procs : procs[q].kind = "create" => procs[q].pc = "start"

\* C12: once a delete call has completed and as long as no create call
\* has been made, the dish is gone, whatever calls were in flight during
\* the delete: no profile file, no stored reference image (so every
\* later call on the dish finds nothing to load and answers not found).
C12_DeletedDishStaysGone ==
  ((\E p \in DOMAIN procs : CompletedDelete(p)) /\ NotCreatedAgain)
    => (file.state = "absent" /\ refdir = {})

\* C15: a create call that finds the dish is answered 409 and writes
\* nothing, and no create call ever opens for writing a profile file that
\* exists, whatever calls run beside it.
C15_CreateNeverOverwrites ==
  [][ \A p \in DOMAIN procs :
        procs[p].kind = "create" =>
          /\ (Returns(p) /\ procs[p].pc = "open" /\ file.state = "ok")
               => (procs'[p].status = 409 /\ file' = file)
          /\ (procs[p].pc = "truncate" /\ procs'[p].pc = "dump")
               => file.state = "absent" ]_vars

\* s is t with more entries after it.
IsPrefix(s, t) == Len(s) <= Len(t) /\ SubSeq(t, 1, Len(s)) = s

NoCallInFlight == \A q \in DOMAIN procs : procs[q].pc \in {"start", "done"}

\* Only create and training calls have been made.
OnlyCreateAndTrain ==
  \A q \in DOMAIN procs : procs[q].kind \notin {"create", "train"} => procs[q].pc = "start"

\* The images the training calls made so far have processed.
ProcessedSoFar ==
  UNION { procs[q].processed : q \in { r \in DOMAIN procs : procs[r].kind = "train" } }

\* C13: a training call only appends.  Each image either leaves the
\* call's profile as it was (rejected or failing) or adds one feature entry
\* and one path at the end of the lists; the profile is saved only if an
\* image was processed, and then it is the loaded profile followed by one
\* reference per processed image, in upload order; a call that processed
\* none leaves the stored profile alone.  After a create call and training
\* calls only, the reference count is the number of images processed.
C13_TrainingOnlyAppends ==
  /\ [][ \A p \in DOMAIN procs :
           procs[p].kind = "train" =>
             LET c == procs[p]
                 d == procs'[p]
                 f == c.profile.reference_features
                 g == d.profile.reference_features
             IN  /\ (c.pc = "images" /\ d # c) =>
                      \/ (d.profile = c.profile /\ d.processed = c.processed)
                      \/ /\ g = Append(f, g[Len(g)])
                         /\ d.profile.reference_image_paths =
                              Append(c.profile.reference_image_paths, g[Len(g)].source_path)
                         /\ g[Len(g)].source_path \notin c.processed
                         /\ \A i \in 1..Len(f) : f[i].source_path # g[Len(g)].source_path
                         /\ d.processed = c.processed \cup {g[Len(g)].source_path}
                         /\ d.profile.dish_name = c.profile.dish_name
                         /\ d.profile.ingredients = c.profile.ingredients
                 /\ (c.pc = "truncate" /\ d.pc = "dump") =>
                      (file = Stored(c.loaded) /\ c.processed # {})
                 /\ Saves(p) =>
                      /\ file' = Stored(c.profile)
                      /\ IsPrefix(c.loaded.reference_features, f)
                      /\ IsPrefix(c.loaded.reference_image_paths,
                                  c.profile.reference_image_paths)
                      /\ Len(f) = Len(c.loaded.reference_features) + Cardinality(c.processed)
                      /\ Len(c.profile.reference_image_paths) = Len(f)
                 /\ (Returns(p) /\ ~Saves(p)) => (file' = file /\ c.processed = {}) ]_vars
  /\ [](( /\ NoCallInFlight
          /\ OnlyCreateAndTrain
          /\ \E q \in DOMAIN procs : procs[q].kind = "create" /\ procs[q].detail = "saved" )
        => /\ file.state = "ok"
           /\ Len(file.profile.reference_features) = Cardinality(ProcessedSoFar)
           /\ Len(file.profile.reference_image_paths) = Cardinality(ProcessedSoFar))

\* A training call on a dish with one reference that processed two images
\* and saved: three references, the old one first, the new ones in upload
\* order.
C13_Witness ==
  \E p \in DOMAIN procs :
    /\ CompletedTraining(p)
    /\ Len(procs[p].loaded.reference_features) = 1
    /\ Cardinality(procs[p].processed) = 2
    /\ file.state = "ok"
    /\ file.profile.reference_image_paths = <<1, NewPath(p, 1), NewPath(p, 2)>>

\* C14: a reset call on an existing dish saves the profile it loaded with
\* both reference lists empty and name and ingredients as they were; an
\* analysis call on a stored profile without references is answered 422,
\* with no score; and a profile loaded without references is saved with
\* references by a training call only (every call saves over the profile
\* it loaded, and nothing but a save stores references).
C14_ResetEmptiesReferences ==
  [][ /\ \A p \in DOMAIN procs :
           /\ (procs[p].kind = "reset" /\ Saves(p)) =>
                /\ procs[p].loaded = procs'[p].loaded
                /\ file'.state = "ok"
                /\ file'.profile.reference_features = <<>>
                /\ file'.profile.reference_image_paths = <<>>
                /\ file'.profile.dish_name = procs[p].loaded.dish_name
                /\ file'.profile.ingredients = procs[p].loaded.ingredients
                /\ procs'[p].status = 200
           /\ (procs[p].kind # "create" /\ procs[p].pc = "truncate" /\ procs'[p].pc = "dump")
                => file = Stored(procs[p].loaded)
           /\ (/\ Saves(p)
               /\ procs[p].loaded.reference_features = <<>>
               /\ file'.profile.reference_features # <<>>) => procs[p].kind = "train"
           /\ (/\ procs[p].kind = "analyze"
               /\ Returns(p)
               /\ file.state = "ok"
               /\ file.profile.reference_features = <<>>) =>
                (procs'[p].status = 422 /\ procs'[p].detail = "no reference images")
      /\ (file' # file /\ file'.profile.reference_features # <<>>)
           => \E p \in DOMAIN procs : Saves(p) ]_vars

\* A trained dish was reset and an analysis call made after the reset, with
\* no training call in between, was answered 422.
C14_Witness ==
  \E p, q \in DOMAIN procs :
    /\ procs[p].kind = "reset" /\ procs[p].pc = "done" /\ procs[p].status = 200
    /\ procs[p].loaded.reference_features # <<>>
    /\ procs[q].kind = "analyze" /\ procs[q].pc = "done" /\ procs[q].status = 422
    /\ \A r \in DOMAIN procs : procs[r].kind = "train" => procs[r].pc = "start"
    /\ file = Stored(ClearReferences(procs[p].loaded))
    /\ refdir = {}

====
